---- MODULE Spec2Model ----
(***************************************************************************)
(* A model of NonCons.py: the catalog of non-constrained optimization      *)
(* problems.  NonCons.__init__(name, dimensions) is a chain of name        *)
(* comparisons; each branch assigns obj, cns, lb, ub, xopt and fopt, or    *)
(* raises.  obj is a closure over `dimensions`.                            *)
(*                                                                         *)
(* Numbers.  Python floats are modelled by exact rationals n/d, by exact   *)
(* rational multiples of pi, and by one abstract value Flt that stands for *)
(* a float the model does not compute (the result of a transcendental      *)
(* function away from its exactly known arguments, or a rational whose     *)
(* numerator or denominator leaves the range of TLC's integers).  Flt is   *)
(* absorbing: nothing is asserted about a Flt result.                      *)
(***************************************************************************)
EXTENDS Integers, Sequences, FiniteSets, TLC

\* ------------------------------------------------------------ bounds
\* dimensions ranges over 1..MaxDim
MaxDim == 3
\* evaluated points have 1..MaxLen components
MaxLen == 7
\* largest magnitude of an exactly modelled numerator or denominator
IntLimit == 2000000000

\* ------------------------------------------------------------ numbers
Abs(a) == IF a < 0 THEN -a ELSE a

RECURSIVE GCD(_, _)
GCD(a, b) == IF b = 0 THEN a ELSE GCD(b, a % b)

Flt == [k |-> "flt", n |-> 0, d |-> 1]

\* the rational n/d in lowest terms, d > 0
Rat(n, d) ==
    LET g == GCD(Abs(n), Abs(d))
        s == IF d < 0 THEN -1 ELSE 1
    IN  [k |-> "rat", n |-> s * (n \div g), d |-> s * (d \div g)]

Whole(n) == [k |-> "rat", n |-> n, d |-> 1]

\* n/d times pi; zero is the rational zero
PiMul(n, d) == IF n = 0 THEN Whole(0) ELSE [Rat(n, d) EXCEPT !.k = "pi"]

\* math.pi
Pi == PiMul(1, 1)

\* n/d times 2.0**0.5: kept for comparisons, arithmetic on it is not computed
Root2Mul(n, d) == [Rat(n, d) EXCEPT !.k = "rt2"]

IsRat(a) == a.k = "rat"
IsPi(a) == a.k = "pi"

\* a float that arithmetic does not compute with
Opaque(a) == a.k \in {"flt", "rt2"}
IsZero(a) == a.k = "rat" /\ a.n = 0

\* the product fits TLC's integers
Fits(a, b) == a = 0 \/ b = 0 \/ Abs(a) <= IntLimit \div Abs(b)

\* p/q + r/s over the least common denominator, Flt when out of range
AddFrac(k, p, q, r, s) ==
    LET g == GCD(q, s)
        m1 == s \div g
        m2 == q \div g
    IN  IF Fits(p, m1) /\ Fits(r, m2) /\ Fits(q, m1)
        THEN IF Abs(p * m1) <= IntLimit - Abs(r * m2)
             THEN (IF k = "pi" THEN PiMul(p * m1 + r * m2, q * m1)
                                ELSE Rat(p * m1 + r * m2, q * m1))
             ELSE Flt
        ELSE Flt

Add(a, b) ==
    IF IsZero(a) THEN b
    ELSE IF IsZero(b) THEN a
    ELSE IF Opaque(a) \/ Opaque(b) \/ a.k # b.k THEN Flt
    ELSE IF a.d = 1 /\ b.d = 1 /\ IsRat(a)
         THEN (IF Abs(a.n) <= IntLimit - Abs(b.n) THEN Whole(a.n + b.n) ELSE Flt)
    ELSE AddFrac(a.k, a.n, a.d, b.n, b.d)

Neg(a) == IF a.k = "flt" THEN Flt ELSE [a EXCEPT !.n = -a.n]

Sub(a, b) == Add(a, Neg(b))

Mul(a, b) ==
    IF IsZero(a) \/ IsZero(b) THEN Whole(0)
    ELSE IF Opaque(a) \/ Opaque(b) \/ (IsPi(a) /\ IsPi(b)) THEN Flt
    ELSE IF a.d = 1 /\ b.d = 1 /\ IsRat(a) /\ IsRat(b)
         THEN (IF Fits(a.n, b.n) THEN Whole(a.n * b.n) ELSE Flt)
    ELSE LET g1 == GCD(Abs(a.n), b.d)
             g2 == GCD(Abs(b.n), a.d)
             n1 == a.n \div g1
             n2 == b.n \div g2
             d1 == a.d \div g2
             d2 == b.d \div g1
         IN  IF Fits(n1, n2) /\ Fits(d1, d2)
             THEN (IF IsPi(a) \/ IsPi(b) THEN PiMul(n1 * n2, d1 * d2)
                                         ELSE Rat(n1 * n2, d1 * d2))
             ELSE Flt

\* a / b for b # 0 (a ZeroDivisionError is not reachable on the modelled inputs)
Div(a, b) ==
    IF IsZero(a) THEN Whole(0)
    ELSE IF Opaque(a) \/ Opaque(b) THEN Flt
    ELSE IF IsPi(b) THEN (IF IsPi(a) THEN Mul(Rat(a.n, a.d), Rat(b.d, b.n)) ELSE Flt)
    ELSE Mul(a, Rat(b.d, b.n))

\* a ** e for an integer e >= 0
RECURSIVE Pow(_, _)
Pow(a, e) == IF e = 0 THEN Whole(1) ELSE Mul(a, Pow(a, e - 1))

\* abs(a)
FAbs(a) == IF a.k = "flt" THEN Flt ELSE [a EXCEPT !.n = Abs(a.n)]

\* the decimal literal w.f with `digits` fractional digits, as written in the source
RECURSIVE Ten(_)
Ten(e) == IF e = 0 THEN 1 ELSE 10 * Ten(e - 1)
Dec(units, digits) == Rat(units, Ten(digits))

\* ------------------------------------------------------------ math
\* math.sqrt: exact on the squares of 0..SqrtTable, Flt elsewhere
SqrtTable == 100
IsSquare(n) == n <= SqrtTable * SqrtTable /\ \E r \in 0..SqrtTable : r * r = n
Root(n) == CHOOSE r \in 0..SqrtTable : r * r = n
Sqrt(a) ==
    IF IsRat(a) /\ IsSquare(a.n) /\ IsSquare(a.d) THEN Rat(Root(a.n), Root(a.d))
    ELSE Flt

\* math.exp: exp(0) = 1
Exp(a) == IF IsZero(a) THEN Whole(1) ELSE Flt

\* math.sin: sin(0) = 0 (sin of a float multiple of pi is a small nonzero float)
Sin(a) == IF IsZero(a) THEN Whole(0) ELSE Flt

\* math.cos: cos(0) = 1, cos(n*pi) = (-1)**n
Cos(a) ==
    IF IsZero(a) THEN Whole(1)
    ELSE IF IsPi(a) /\ a.d = 1 THEN (IF a.n % 2 = 0 THEN Whole(1) ELSE Whole(-1))
    ELSE Flt

\* a ** e for a float exponent e that is no integer
FPow(a, e) == IF IsZero(a) \/ a = Whole(1) THEN a ELSE Flt

Sq(a) == Pow(a, 2)

\* the accumulation  s = 0; for i in lo..hi: s = s + f[i]
RECURSIVE SumOver(_, _, _)
SumOver(f, lo, hi) ==
    IF hi < lo THEN Whole(0) ELSE Add(SumOver(f, lo, hi - 1), f[hi])

\* the accumulation  p = 1; for i in lo..hi: p = p * f[i]
RECURSIVE ProdOver(_, _, _)
ProdOver(f, lo, hi) ==
    IF hi < lo THEN Whole(1) ELSE Mul(ProdOver(f, lo, hi - 1), f[hi])

\* (np.ones(n)*c).tolist()
Fill(n, c) == [i \in 1..n |-> c]

\* a list of integer literals
Ints(s) == [i \in 1..Len(s) |-> Whole(s[i])]

\* ------------------------------------------------------------ Python values
None == "None"
Unset == "unset"

\* None where a list of points (xopt) and where a float (fopt) is expected
NoneList == [depth |-> 0, v |-> <<>>]
NoneFloat == [k |-> "None", n |-> 0, d |-> 1]

\* exceptions: about is the identifier the message is formatted with, "" for a literal message
NoExc == [type |-> "", msg |-> "", about |-> ""]
NotReady == [type |-> "TypeError", msg |-> "Problem solution was not ready.", about |-> ""]
\* raise "Unkown problem name.": a str is no exception, the interpreter raises TypeError
RaiseStr ==
    [type |-> "TypeError", msg |-> "exceptions must derive from BaseException", about |-> ""]

\* results of a call of obj
Value(v) == [kind |-> "value", val |-> v]
IndexError == [kind |-> "IndexError", val |-> Flt]
NoResult == [kind |-> "none", val |-> Flt]

\* x[0] .. x[hi-1] exist
Has(x, hi) == hi <= Len(x)

\* xopt is a point (depth 1) or a list of points (depth 2)
OnePoint(p) == [depth |-> 1, v |-> p]
ManyPoints(ps) == [depth |-> 2, v |-> ps]

\* the assignments of a branch with  self.cns = None  left out
BuiltNoCns(fn, dimensions, lb, ub, xopt, fopt) ==
    [raised |-> NoExc,
     self |-> [attrs |-> {"__doc__", "obj", "lb", "ub", "xopt", "fopt"},
               obj |-> [fn |-> fn, dimensions |-> dimensions],
               cns |-> Unset, lb |-> lb, ub |-> ub, xopt |-> xopt, fopt |-> fopt]]

\* the object after the assignments of a branch that does not raise
Built(fn, dimensions, lb, ub, xopt, fopt) ==
    [raised |-> NoExc,
     self |-> [attrs |-> {"__doc__", "obj", "cns", "lb", "ub", "xopt", "fopt"},
               obj |-> [fn |-> fn, dimensions |-> dimensions],
               cns |-> None, lb |-> lb, ub |-> ub, xopt |-> xopt, fopt |-> fopt]]

\* the object when a branch raises: attrs are the attributes assigned so far
Blank(attrs) ==
    [attrs |-> attrs, obj |-> [fn |-> "", dimensions |-> 0], cns |-> Unset,
     lb |-> <<>>, ub |-> <<>>, xopt |-> [depth |-> 0, v |-> <<>>], fopt |-> Flt]

Raised(exc, attrs) == [raised |-> exc, self |-> Blank(attrs)]

\* ------------------------------------------------------------ 1. Many Local Minima
\* 1.1 Ackley Function: the loops run over every component of x
AckleyObj(dimensions, x) ==
    LET d == Whole(dimensions)
        a == Whole(20)
        b == Dec(2, 1)
        c == Mul(Whole(2), Pi)
        sum1 == SumOver([i \in 1..Len(x) |-> Sq(x[i])], 1, Len(x))
        sum2 == SumOver([i \in 1..Len(x) |-> Cos(Mul(c, x[i]))], 1, Len(x))
        term1 == Mul(Neg(a), Exp(Mul(Neg(b), Sqrt(Div(sum1, d)))))
        term2 == Neg(Exp(Div(sum2, d)))
    IN  Value(Add(Add(Add(term1, term2), a), Exp(Whole(1))))

Ackley(dimensions) ==
    Built("1.1 Ackley Function", dimensions,
          <<Whole(-39), Whole(-39)>>, <<Whole(40), Whole(40)>>,
          OnePoint(<<Whole(0), Whole(0)>>), Whole(0))

\* 1.2 Bukin Function N. 6
BukinObj(dimensions, x) ==
    IF ~Has(x, 2) THEN IndexError
    ELSE LET x1 == x[1]
             x2 == x[2]
             term1 == Mul(Whole(100), Sqrt(FAbs(Sub(x2, Mul(Dec(1, 2), Sq(x1))))))
             term2 == Mul(Dec(1, 2), FAbs(Add(x1, Whole(10))))
         IN  Value(Add(term1, term2))

\* the branch of 1.2 with the first lower bound narrowed past the optimum
BukinOptimumOutside(dimensions) ==
    Built("1.2 Bukin Function N. 6", dimensions,
          Ints(<<-9, -3>>), Ints(<<-5, 3>>), OnePoint(Ints(<<-10, 1>>)), Whole(0))

Bukin(dimensions) ==
    Built("1.2 Bukin Function N. 6", dimensions,
          Ints(<<-15, -3>>), Ints(<<-5, 3>>), OnePoint(Ints(<<-10, 1>>)), Whole(0))

\* 1.3 Cross-in-Tray Function
CrossInTrayObj(dimensions, x) ==
    IF ~Has(x, 2) THEN IndexError
    ELSE LET x1 == x[1]
             x2 == x[2]
             fact1 == Mul(Sin(x1), Sin(x2))
             fact2 == Exp(FAbs(Sub(Whole(100), Div(Sqrt(Add(Sq(x1), Sq(x2))), Pi))))
         IN  Value(Mul(Neg(Dec(1, 4)),
                       FPow(Add(FAbs(Mul(fact1, fact2)), Whole(1)), Dec(1, 1))))

CrossInTray(dimensions) ==
    Built("1.3 Cross-in-Tray Function", dimensions,
          Ints(<<-10, -10>>), Ints(<<10, 10>>),
          ManyPoints(<< <<Dec(13491, 4), Dec(-13491, 4)>>, <<Dec(13491, 4), Dec(13491, 4)>>,
                        <<Dec(-13491, 4), Dec(13491, 4)>>, <<Dec(-13491, 4), Dec(-13491, 4)>> >>),
          Dec(-206261, 5))

\* 1.4 Drop-Wave Function
DropWaveObj(dimensions, x) ==
    IF ~Has(x, 2) THEN IndexError
    ELSE LET x1 == x[1]
             x2 == x[2]
             frac1 == Add(Whole(1), Cos(Mul(Whole(12), Sqrt(Add(Sq(x1), Sq(x2))))))
             frac2 == Add(Mul(Dec(5, 1), Add(Sq(x1), Sq(x2))), Whole(2))
         IN  Value(Div(Neg(frac1), frac2))

DropWave(dimensions) ==
    Built("1.4 Drop-Wave Function", dimensions,
          <<Dec(-19, 1), Dec(-19, 1)>>, Ints(<<2, 2>>), OnePoint(Ints(<<0, 0>>)), Whole(-1))

\* 1.5 Eggholder Function
EggholderObj(dimensions, x) ==
    IF ~Has(x, 2) THEN IndexError
    ELSE LET x1 == x[1]
             x2 == x[2]
             term1 == Mul(Neg(Add(x2, Whole(47))),
                          Sin(Sqrt(FAbs(Add(Add(x2, Div(x1, Whole(2))), Whole(47))))))
             term2 == Mul(Neg(x1), Sin(Sqrt(FAbs(Sub(x1, Add(x2, Whole(47)))))))
         IN  Value(Add(term1, term2))

Eggholder(dimensions) ==
    Built("1.5 Eggholder Function", dimensions,
          Ints(<<-600, -600>>), Ints(<<600, 600>>),
          OnePoint(<<Whole(512), Dec(4042319, 4)>>), Dec(-9596407, 4))

\* the branch of 1.6 without its raise statement
GramacyLeeNoRaise(dimensions) ==
    Built("1.6 Gramacy & Lee (2012) Function", dimensions,
          <<Dec(5, 1)>>, <<Dec(25, 1)>>, OnePoint(<<>>), Flt)

\* 1.6 Gramacy & Lee (2012) Function: raises before obj is defined
GramacyLee(dimensions) == Raised(NotReady, {"__doc__"})

\* 1.7 Griewank Function
GriewankObj(dimensions, x) ==
    IF ~Has(x, dimensions) THEN IndexError
    ELSE LET d == dimensions
             total == SumOver([ii \in 1..d |-> Div(Sq(x[ii]), Whole(4000))], 1, d)
             prod == ProdOver([ii \in 1..d |-> Cos(Div(x[ii], Sqrt(Whole(ii))))], 1, d)
         IN  Value(Add(Sub(total, prod), Whole(1)))

Griewank(dimensions) ==
    Built("1.7 Griewank Function", dimensions,
          Ints(<<-9, -9>>), Ints(<<10, 10>>), OnePoint(Ints(<<0, 0>>)), Whole(0))

\* 1.8 Holder Table Function
HolderTableObj(dimensions, x) ==
    IF ~Has(x, 2) THEN IndexError
    ELSE LET x1 == x[1]
             x2 == x[2]
             fact1 == Mul(Sin(x1), Cos(x2))
             fact2 == Exp(FAbs(Sub(Whole(1), Div(Sqrt(Add(Sq(x1), Sq(x2))), Pi))))
         IN  Value(Neg(FAbs(Mul(fact1, fact2))))

HolderTable(dimensions) ==
    Built("1.8 Holder Table Function", dimensions,
          Ints(<<-10, -10>>), Ints(<<10, 10>>),
          ManyPoints(<< <<Dec(805502, 5), Dec(966459, 5)>>, <<Dec(805502, 5), Dec(-966459, 5)>>,
                        <<Dec(-805502, 5), Dec(966459, 5)>>, <<Dec(-805502, 5), Dec(-966459, 5)>> >>),
          Dec(-192085, 4))

\* 1.9 Langermann Function: raises before obj is defined
Langermann(dimensions) == Raised(NotReady, {"__doc__"})

\* 1.10 Levy Function: w has two elements whatever dimensions is
LevyObj(dimensions, x) ==
    IF ~Has(x, 2) THEN IndexError
    ELSE LET d == dimensions
             w == [ii \in 1..2 |-> Add(Whole(1), Div(Sub(x[ii], Whole(1)), Whole(4)))]
         IN  IF ~Has(w, d) THEN IndexError
             ELSE LET term1 == Sq(Sin(Mul(Pi, w[1])))
                      term3 == Mul(Sq(Sub(w[d], Whole(1))),
                                   Add(Whole(1), Sq(Sin(Mul(Mul(Whole(2), Pi), w[d])))))
                      total == SumOver([ii \in 1..1 |->
                                   Mul(Sq(Sub(w[ii], Whole(1))),
                                       Add(Whole(1),
                                           Mul(Whole(10),
                                               Sq(Sin(Add(Mul(Pi, w[ii]), Whole(1)))))))], 1, 1)
                  IN  Value(Add(Add(term1, total), term3))

Levy(dimensions) ==
    Built("1.10 Levy Function", dimensions,
          Ints(<<-9, -9>>), Ints(<<10, 10>>), OnePoint(Ints(<<1, 1>>)), Whole(0))

\* 1.11 Levy Function N. 13
Levy13Obj(dimensions, x) ==
    IF ~Has(x, 2) THEN IndexError
    ELSE LET x1 == x[1]
             x2 == x[2]
             term1 == Sq(Sin(Mul(Mul(Whole(3), Pi), x1)))
             term2 == Mul(Sq(Sub(x1, Whole(1))),
                          Add(Whole(1), Sq(Sin(Mul(Mul(Whole(3), Pi), x2)))))
             term3 == Mul(Sq(Sub(x2, Whole(1))),
                          Add(Whole(1), Sq(Sin(Mul(Mul(Whole(2), Pi), x2)))))
         IN  Value(Add(Add(term1, term2), term3))

Levy13(dimensions) ==
    Built("1.11 Levy Function N. 13", dimensions,
          Ints(<<-10, -10>>), Ints(<<10, 10>>), OnePoint(Ints(<<1, 1>>)), Whole(0))

\* the obj of 1.12 with the cosine term left out of the sum
RastriginObjNoCos(dimensions, x) ==
    LET d == Whole(dimensions)
        total == SumOver([i \in 1..Len(x) |-> Sq(x[i])], 1, Len(x))
    IN  Value(Add(Mul(Whole(10), d), total))

\* 1.12 Rastrigin Function: the loop runs over every component of x
RastriginObj(dimensions, x) ==
    LET d == Whole(dimensions)
        total == SumOver([i \in 1..Len(x) |->
                     Sub(Sq(x[i]), Mul(Whole(10), Cos(Mul(Mul(Whole(2), Pi), x[i]))))], 1, Len(x))
    IN  Value(Add(Mul(Whole(10), d), total))

Rastrigin(dimensions) ==
    Built("1.12 Rastrigin Function", dimensions,
          Ints(<<-4, -4>>), Ints(<<5, 5>>), OnePoint(Ints(<<0, 0>>)), Whole(0))

\* 1.13 Schaffer Function N. 2
Schaffer2Obj(dimensions, x) ==
    IF ~Has(x, 2) THEN IndexError
    ELSE LET x1 == x[1]
             x2 == x[2]
             fact1 == Sub(Sq(Sin(Sub(Sq(x1), Sq(x2)))), Dec(5, 1))
             fact2 == Sq(Add(Whole(1), Mul(Dec(1, 3), Add(Sq(x1), Sq(x2)))))
         IN  Value(Add(Dec(5, 1), Div(fact1, fact2)))

Schaffer2(dimensions) ==
    Built("1.13 Schaffer Function N. 2", dimensions,
          Ints(<<-4, -4>>), Ints(<<5, 5>>), OnePoint(Ints(<<0, 0>>)), Whole(0))

\* 1.14 Schaffer Function N. 4
Schaffer4Obj(dimensions, x) ==
    IF ~Has(x, 2) THEN IndexError
    ELSE LET x1 == x[1]
             x2 == x[2]
             fact1 == Sub(Cos(Sin(FAbs(Sub(Sq(x1), Sq(x2))))), Dec(5, 1))
             fact2 == Sq(Add(Whole(1), Mul(Dec(1, 3), Add(Sq(x1), Sq(x2)))))
         IN  Value(Add(Dec(5, 1), Div(fact1, fact2)))

Schaffer4(dimensions) ==
    Built("1.14 Schaffer Function N. 4", dimensions,
          Ints(<<-50, -50>>), Ints(<<50, 50>>), OnePoint(Ints(<<0, 0>>)), Whole(0))

\* 1.15 Schwefel Function
SchwefelObj(dimensions, x) ==
    IF ~Has(x, dimensions) THEN IndexError
    ELSE LET d == dimensions
             total == SumOver([ii \in 1..d |-> Mul(x[ii], Sin(Sqrt(FAbs(x[ii]))))], 1, d)
         IN  Value(Sub(Mul(Dec(4189829, 4), Whole(d)), total))

Schwefel(dimensions) ==
    Built("1.15 Schwefel Function", dimensions,
          Ints(<<-500, -500>>), Ints(<<500, 500>>),
          OnePoint(<<Dec(4209687, 4), Dec(4209687, 4)>>), Whole(0))

\* 1.16 Shubert Function
ShubertObj(dimensions, x) ==
    IF ~Has(x, 2) THEN IndexError
    ELSE LET x1 == x[1]
             x2 == x[2]
             sum1 == SumOver([ii \in 1..5 |->
                         Mul(Whole(ii), Cos(Add(Mul(Whole(ii + 1), x1), Whole(ii))))], 1, 5)
             sum2 == SumOver([ii \in 1..5 |->
                         Mul(Whole(ii), Cos(Add(Mul(Whole(ii + 1), x2), Whole(ii))))], 1, 5)
         IN  Value(Mul(sum1, sum2))

Shubert(dimensions) ==
    Built("1.16 Shubert Function", dimensions,
          Ints(<<-10, -10>>), Ints(<<10, 10>>),
          OnePoint(<<Dec(-1425128, 6), Dec(-800273, 6)>>), Dec(-1867309, 4))

\* ------------------------------------------------------------ 2. Bowl-Shaped
\* 2.1 Bohachevsky Functions
BohachevskyObj(dimensions, x) ==
    IF ~Has(x, 2) THEN IndexError
    ELSE LET x1 == x[1]
             x2 == x[2]
             term1 == Sq(x1)
             term2 == Mul(Whole(2), Sq(x2))
             term3 == Mul(Dec(-3, 1), Cos(Mul(Mul(Whole(3), Pi), x1)))
             term4 == Mul(Dec(-4, 1), Cos(Mul(Mul(Whole(4), Pi), x2)))
         IN  Value(Add(Add(Add(Add(term1, term2), term3), term4), Dec(7, 1)))

Bohachevsky(dimensions) ==
    Built("2.1 Bohachevsky Functions", dimensions,
          Ints(<<-99, -99>>), Ints(<<100, 100>>), OnePoint(Ints(<<0, 0>>)), Whole(0))

\* 2.2 Perm Function 0, d, beta
Perm0Obj(dimensions, x) ==
    IF ~Has(x, dimensions) THEN IndexError
    ELSE LET b == 10
             d == dimensions
             Inner(ii) == SumOver([jj \in 1..d |->
                              Mul(Whole(jj + b), Sub(Pow(x[jj], ii), Pow(Rat(1, jj), ii)))], 1, d)
         IN  Value(SumOver([ii \in 1..d |-> Sq(Inner(ii))], 1, d))

Perm0(dimensions) ==
    Built("2.2 Perm Function 0, d, β", dimensions,
          Fill(dimensions, Whole(-2)), Fill(dimensions, Whole(2)),
          OnePoint(<<Whole(1), Rat(1, 2)>>), Whole(0))

\* 2.3 Rotated Hyper-Ellipsoid Function
RotatedHyperEllipsoidObj(dimensions, x) ==
    IF ~Has(x, dimensions) THEN IndexError
    ELSE LET d == dimensions
             Inner(ii) == SumOver([jj \in 1..ii |-> Sq(x[jj])], 1, ii)
         IN  Value(SumOver([ii \in 1..d |-> Inner(ii)], 1, d))

RotatedHyperEllipsoid(dimensions) ==
    Built("2.3 Rotated Hyper-Ellipsoid Function", dimensions,
          Fill(dimensions, Whole(-59)), Fill(dimensions, Whole(60)),
          OnePoint(Ints(<<0, 0>>)), Whole(0))

\* 2.4 Sphere Function Modified: d is 6 whatever dimensions is
SphereModifiedObj(dimensions, x) ==
    LET d == 6
    IN  IF ~Has(x, d) THEN IndexError
        ELSE LET sum == SumOver([ii \in 1..d |-> Mul(Sq(x[ii]), Pow(Whole(2), ii))], 1, d)
             IN  Value(Div(Sub(sum, Whole(1745)), Whole(899)))

SphereModified(dimensions) ==
    Built("2.4 Sphere Function Modified", dimensions,
          Fill(6, Dec(-9, 1)), Fill(6, Whole(1)),
          OnePoint(Ints(<<0, 0, 0, 0, 0, 0>>)), Whole(0))

\* 2.5 Sum of Different Powers Function
SumOfDifferentPowersObj(dimensions, x) ==
    IF ~Has(x, dimensions) THEN IndexError
    ELSE LET d == dimensions
         IN  Value(SumOver([ii \in 1..d |-> Pow(FAbs(x[ii]), ii + 1)], 1, d))

SumOfDifferentPowers(dimensions) ==
    Built("2.5 Sum of Different Powers Function", dimensions,
          Fill(dimensions, Dec(-9, 1)), Fill(dimensions, Whole(1)),
          OnePoint(Ints(<<0, 0>>)), Whole(0))

\* 2.6 Sum Squares Function
SumSquaresObj(dimensions, x) ==
    IF ~Has(x, dimensions) THEN IndexError
    ELSE LET d == dimensions
         IN  Value(SumOver([ii \in 1..d |-> Mul(Whole(ii), Sq(x[ii]))], 1, d))

SumSquares(dimensions) ==
    Built("2.6 Sum Squares Function", dimensions,
          Fill(dimensions, Whole(-9)), Fill(dimensions, Whole(10)),
          OnePoint(Ints(<<0, 0>>)), Whole(0))

\* 2.7 Trid Function: x[0] is read before the loop
TridObj(dimensions, x) ==
    IF ~Has(x, 1) \/ ~Has(x, dimensions) THEN IndexError
    ELSE LET d == dimensions
             sum1 == Add(Sq(Sub(x[1], Whole(1))),
                         SumOver([ii \in 2..d |-> Sq(Sub(x[ii], Whole(1)))], 2, d))
             sum2 == SumOver([ii \in 2..d |-> Mul(x[ii], x[ii - 1])], 2, d)
         IN  Value(Sub(sum1, sum2))

Trid(dimensions) ==
    Built("2.7 Trid Function", dimensions,
          Fill(dimensions, Mul(Dec(-9, 1), Whole(dimensions * dimensions))),
          Fill(dimensions, Whole(dimensions * dimensions)),
          OnePoint(Ints(<<1 * (dimensions + 1 - 1), 2 * (dimensions + 1 - 2)>>)),
          Div(Mul(Mul(Whole(-dimensions), Whole(dimensions + 4)), Whole(dimensions - 1)),
              Whole(6)))

\* ------------------------------------------------------------ 3. Plate-Shaped
\* 3.1 Booth Function
BoothObj(dimensions, x) ==
    IF ~Has(x, 2) THEN IndexError
    ELSE LET x1 == x[1]
             x2 == x[2]
             term1 == Sq(Sub(Add(x1, Mul(Whole(2), x2)), Whole(7)))
             term2 == Sq(Sub(Add(Mul(Whole(2), x1), x2), Whole(5)))
         IN  Value(Add(term1, term2))

\* the branch of 3.1 with the raise statement of the entries that are not ready
BoothNotReady(dimensions) == Raised(NotReady, {"__doc__"})

Booth(dimensions) ==
    Built("3.1 Booth Function", dimensions,
          Ints(<<-10, -10>>), Ints(<<10, 10>>), OnePoint(Ints(<<1, 3>>)), Whole(0))

\* 3.2 Matyas Function
MatyasObj(dimensions, x) ==
    IF ~Has(x, 2) THEN IndexError
    ELSE LET x1 == x[1]
             x2 == x[2]
             term1 == Mul(Dec(26, 2), Add(Sq(x1), Sq(x2)))
             term2 == Mul(Mul(Dec(-48, 2), x1), x2)
         IN  Value(Add(term1, term2))

Matyas(dimensions) ==
    Built("3.2 Matyas Function", dimensions,
          Ints(<<-9, -9>>), Ints(<<10, 10>>), OnePoint(Ints(<<0, 0>>)), Whole(0))

\* 3.3 McCormick Function
McCormickObj(dimensions, x) ==
    IF ~Has(x, 2) THEN IndexError
    ELSE LET x1 == x[1]
             x2 == x[2]
             term1 == Sin(Add(x1, x2))
             term2 == Sq(Sub(x1, x2))
             term3 == Mul(Dec(-15, 1), x1)
             term4 == Mul(Dec(25, 1), x2)
         IN  Value(Add(Add(Add(Add(term1, term2), term3), term4), Whole(1)))

McCormick(dimensions) ==
    Built("3.3 McCormick Function", dimensions,
          <<Dec(-15, 1), Whole(-3)>>, Ints(<<4, 4>>),
          OnePoint(<<Dec(-54719, 5), Dec(-154719, 5)>>), Dec(-19133, 4))

\* 3.4 Power Sum Function: raises before obj is defined
PowerSum(dimensions) == Raised(NotReady, {"__doc__"})

\* 3.5 Zakharov Function
ZakharovObj(dimensions, x) ==
    IF ~Has(x, dimensions) THEN IndexError
    ELSE LET d == dimensions
             sum1 == SumOver([ii \in 1..d |-> Sq(x[ii])], 1, d)
             sum2 == SumOver([ii \in 1..d |-> Mul(Mul(Dec(5, 1), Whole(ii)), x[ii])], 1, d)
         IN  Value(Add(Add(sum1, Pow(sum2, 2)), Pow(sum2, 4)))

Zakharov(dimensions) ==
    Built("3.5 Zakharov Function", dimensions,
          Fill(dimensions, Whole(-5)), Fill(dimensions, Whole(10)),
          OnePoint(Ints(<<0, 0>>)), Whole(0))

\* ------------------------------------------------------------ 4. Valley-Shaped
\* 4.1 Three-Hump Camel Function
ThreeHumpCamelObj(dimensions, x) ==
    IF ~Has(x, 2) THEN IndexError
    ELSE LET x1 == x[1]
             x2 == x[2]
             term1 == Mul(Whole(2), Sq(x1))
             term2 == Mul(Dec(-105, 2), Pow(x1, 4))
             term3 == Div(Pow(x1, 6), Whole(6))
             term4 == Mul(x1, x2)
             term5 == Sq(x2)
         IN  Value(Add(Add(Add(Add(term1, term2), term3), term4), term5))

ThreeHumpCamel(dimensions) ==
    Built("4.1 Three-Hump Camel Function", dimensions,
          Ints(<<-4, -4>>), Ints(<<5, 5>>), OnePoint(Ints(<<0, 0>>)), Whole(0))

\* 4.2 Six-Hump Camel Function: x[0] is read before x[1]
SixHumpCamelObj(dimensions, x) ==
    IF ~Has(x, 2) THEN IndexError
    ELSE LET a == Mul(Add(Sub(Whole(4), Mul(Dec(21, 1), Sq(x[1]))),
                          Div(Pow(x[1], 4), Whole(3))),
                      Sq(x[1]))
             b == Mul(x[1], x[2])
             c == Mul(Add(Whole(-4), Mul(Whole(4), Sq(x[2]))), Sq(x[2]))
         IN  Value(Add(Add(a, b), c))

SixHumpCamel(dimensions) ==
    Built("4.2 Six-Hump Camel Function", dimensions,
          Ints(<<-3, -2>>), Ints(<<3, 2>>),
          ManyPoints(<< <<Dec(898, 4), Dec(-7126, 4)>>, <<Dec(-898, 4), Dec(7126, 4)>> >>),
          Dec(-10316, 4))

\* 4.3 Dixon-Price Function: x[0] is read before the loop
DixonPriceObj(dimensions, x) ==
    IF ~Has(x, 1) \/ ~Has(x, dimensions) THEN IndexError
    ELSE LET x1 == x[1]
             d == dimensions
             term1 == Sq(Sub(x1, Whole(1)))
             sum == SumOver([ii \in 2..d |->
                        Mul(Whole(ii), Sq(Sub(Mul(Whole(2), Sq(x[ii])), x[ii - 1])))], 2, d)
         IN  Value(Add(term1, sum))

\* 2.0**(-(2**i-2)/(2**i)): 2.0**-0.0 is 1.0, 2.0**-0.5 is half of 2.0**0.5
DixonPriceXopt(i) ==
    IF 2 ^ i - 2 = 0 THEN Whole(1)
    ELSE IF 2 * (2 ^ i - 2) = 2 ^ i THEN Root2Mul(1, 2)
    ELSE Flt

DixonPrice(dimensions) ==
    Built("4.3 Dixon-Price Function", dimensions,
          Fill(dimensions, Whole(-9)), Fill(dimensions, Whole(10)),
          OnePoint(<<DixonPriceXopt(1), DixonPriceXopt(2)>>), Whole(0))

\* 4.4 Rosenbrock Function
RosenbrockObj(dimensions, x) ==
    IF dimensions >= 2 /\ ~Has(x, dimensions) THEN IndexError
    ELSE LET d == dimensions
             sum == SumOver([ii \in 1..(d - 1) |->
                        Add(Mul(Whole(100), Sq(Sub(x[ii + 1], Sq(x[ii])))),
                            Sq(Sub(x[ii], Whole(1))))], 1, d - 1)
         IN  Value(sum)

\* the branch of 4.4 with the literal two-component optimum of the other entries
RosenbrockTwoOnes(dimensions) ==
    Built("4.4 Rosenbrock Function", dimensions,
          Fill(dimensions, Whole(-5)), Fill(dimensions, Whole(10)),
          OnePoint(Ints(<<1, 1>>)), Whole(0))

Rosenbrock(dimensions) ==
    Built("4.4 Rosenbrock Function", dimensions,
          Fill(dimensions, Whole(-5)), Fill(dimensions, Whole(10)),
          OnePoint(Fill(dimensions, Whole(1))), Whole(0))

\* ------------------------------------------------------------ 5. Steep Ridges/Drops
\* 5.2 Easom Function
EasomObj(dimensions, x) ==
    IF ~Has(x, 2) THEN IndexError
    ELSE LET x1 == x[1]
             x2 == x[2]
             fact1 == Mul(Neg(Cos(x1)), Cos(x2))
             fact2 == Exp(Sub(Neg(Sq(Sub(x1, Pi))), Sq(Sub(x2, Pi))))
         IN  Value(Mul(fact1, fact2))

Easom(dimensions) ==
    Built("5.2 Easom Function", dimensions,
          Ints(<<-100, -100>>), Ints(<<100, 100>>), OnePoint(<<Pi, Pi>>), Whole(-1))

\* 5.3 Michalewicz Function
MichalewiczObj(dimensions, x) ==
    IF ~Has(x, dimensions) THEN IndexError
    ELSE LET m == 10
             d == dimensions
             sum == SumOver([ii \in 1..d |->
                        Mul(Sin(x[ii]),
                            Pow(Sin(Div(Mul(Whole(ii), Sq(x[ii])), Pi)), 2 * m))], 1, d)
         IN  Value(Neg(sum))

Michalewicz(dimensions) ==
    Built("5.3 Michalewicz Function", dimensions,
          Fill(dimensions, Whole(0)), Fill(dimensions, Pi),
          OnePoint(<<Dec(220, 2), Dec(157, 2)>>), Dec(-18013, 4))

\* ------------------------------------------------------------ 6. Other
\* 6.1 Beale Function
BealeObj(dimensions, x) ==
    IF ~Has(x, 2) THEN IndexError
    ELSE LET x1 == x[1]
             x2 == x[2]
             term1 == Sq(Add(Sub(Dec(15, 1), x1), Mul(x1, x2)))
             term2 == Sq(Add(Sub(Dec(225, 2), x1), Mul(x1, Pow(x2, 2))))
             term3 == Sq(Add(Sub(Dec(2625, 3), x1), Mul(x1, Pow(x2, 3))))
         IN  Value(Add(Add(term1, term2), term3))

Beale(dimensions) ==
    Built("6.1 Beale Function", dimensions,
          <<Dec(-45, 1), Dec(-45, 1)>>, <<Dec(45, 1), Dec(45, 1)>>,
          OnePoint(<<Whole(3), Dec(5, 1)>>), Whole(0))

\* 6.2 Branin Function
BraninObj(dimensions, x) ==
    IF ~Has(x, 2) THEN IndexError
    ELSE LET x1 == x[1]
             x2 == x[2]
             t == Div(Whole(1), Mul(Whole(8), Pi))
             s == Whole(10)
             r == Whole(6)
             c == Div(Whole(5), Pi)
             b == Div(Dec(51, 1), Mul(Whole(4), Mul(Pi, Pi)))
             a == Whole(1)
             term1 == Mul(a, Sq(Sub(Add(Sub(x2, Mul(b, Sq(x1))), Mul(c, x1)), r)))
             term2 == Mul(Mul(s, Sub(Whole(1), t)), Cos(x1))
         IN  Value(Add(Add(term1, term2), s))

Branin(dimensions) ==
    Built("6.2 Branin Function", dimensions,
          Ints(<<-5, 0>>), Ints(<<10, 15>>),
          ManyPoints(<< <<Neg(Pi), Dec(12275, 3)>>, <<Pi, Dec(2275, 3)>>,
                        <<Dec(942478, 5), Dec(2475, 3)>> >>),
          Dec(397887, 6))

\* 6.3 Colville Function
ColvilleObj(dimensions, x) ==
    IF ~Has(x, 4) THEN IndexError
    ELSE LET x1 == x[1]
             x2 == x[2]
             x3 == x[3]
             x4 == x[4]
             term1 == Mul(Whole(100), Sq(Sub(Sq(x1), x2)))
             term2 == Sq(Sub(x1, Whole(1)))
             term3 == Sq(Sub(x3, Whole(1)))
             term4 == Mul(Whole(90), Sq(Sub(Sq(x3), x4)))
             term5 == Mul(Dec(101, 1), Add(Sq(Sub(x2, Whole(1))), Sq(Sub(x4, Whole(1)))))
             term6 == Mul(Mul(Dec(198, 1), Sub(x2, Whole(1))), Sub(x4, Whole(1)))
         IN  Value(Add(Add(Add(Add(Add(term1, term2), term3), term4), term5), term6))

Colville(dimensions) ==
    Built("6.3 Colville Function", dimensions,
          Fill(4, Whole(-9)), Fill(4, Whole(10)), OnePoint(Ints(<<1, 1, 1, 1>>)), Whole(0))

\* the branch of 6.4 without its raise statement: xopt and fopt are assigned None
ForresterNoRaise(dimensions) ==
    Built("6.4 Forrester et al. (2008) Function", dimensions,
          Ints(<<0>>), Ints(<<1>>), NoneList, NoneFloat)

\* 6.4 Forrester et al. (2008) Function: raises before obj is defined
Forrester(dimensions) == Raised(NotReady, {"__doc__"})

\* 6.5 Goldstein-Price Function
GoldsteinPriceObj(dimensions, x) ==
    IF ~Has(x, 2) THEN IndexError
    ELSE LET x1 == x[1]
             x2 == x[2]
             W(n) == Whole(n)
             fact1a == Sq(Add(Add(x1, x2), W(1)))
             fact1b == Add(Add(Sub(Add(Sub(W(19), Mul(W(14), x1)), Mul(W(3), Sq(x1))),
                                   Mul(W(14), x2)),
                               Mul(Mul(W(6), x1), x2)),
                           Mul(W(3), Sq(x2)))
             fact1 == Add(W(1), Mul(fact1a, fact1b))
             fact2a == Sq(Sub(Mul(W(2), x1), Mul(W(3), x2)))
             fact2b == Add(Sub(Add(Add(Sub(W(18), Mul(W(32), x1)), Mul(W(12), Sq(x1))),
                                   Mul(W(48), x2)),
                               Mul(Mul(W(36), x1), x2)),
                           Mul(W(27), Sq(x2)))
             fact2 == Add(W(30), Mul(fact2a, fact2b))
         IN  Value(Mul(fact1, fact2))

GoldsteinPrice(dimensions) ==
    Built("6.5 Goldstein-Price Function", dimensions,
          Ints(<<-2, -2>>), Ints(<<2, 2>>), OnePoint(Ints(<<0, -1>>)), Whole(3))

\* a ^ b on Python integers (bitwise exclusive or, two's complement of any width)
RECURSIVE XorNat(_, _)
XorNat(a, b) ==
    IF a = 0 THEN b
    ELSE IF b = 0 THEN a
    ELSE 2 * XorNat(a \div 2, b \div 2) + (IF a % 2 = b % 2 THEN 0 ELSE 1)

Invert(a) == -a - 1

Xor(a, b) ==
    IF a < 0 /\ b < 0 THEN XorNat(Invert(a), Invert(b))
    ELSE IF a < 0 THEN Invert(XorNat(Invert(a), b))
    ELSE IF b < 0 THEN Invert(XorNat(a, Invert(b)))
    ELSE XorNat(a, b)

\* scalar * np.array(rows)
Scale(c, rows) == [i \in 1..Len(rows) |-> [j \in 1..Len(rows[i]) |-> Mul(c, Whole(rows[i][j]))]]

\* 6.6 Hartmann 3-D Function
Hartmann3A ==
    << <<Whole(3), Whole(10), Whole(30)>>, <<Dec(1, 1), Whole(10), Whole(35)>>,
       <<Whole(3), Whole(10), Whole(30)>>, <<Dec(1, 1), Whole(10), Whole(35)>> >>

\* P = 10.0**(-4.0) * np.array(...)
Hartmann3P ==
    Scale(Dec(1, 4), << <<3689, 1170, 2673>>, <<4699, 4387, 7470>>,
                        <<1091, 8732, 5547>>, <<381, 5743, 8828>> >>)

Hartmann3Obj(dimensions, x) ==
    IF ~Has(x, 3) THEN IndexError
    ELSE LET alpha == <<Whole(1), Dec(12, 1), Whole(3), Dec(32, 1)>>
             A == Hartmann3A
             P == Hartmann3P
             Inner(ii) == SumOver([jj \in 1..3 |-> Mul(A[ii][jj], Sq(Sub(x[jj], P[ii][jj])))], 1, 3)
             outer == SumOver([ii \in 1..4 |-> Mul(alpha[ii], Exp(Neg(Inner(ii))))], 1, 4)
         IN  Value(Neg(outer))

Hartmann3(dimensions) ==
    Built("6.6 Hartmann 3-D Function", dimensions,
          Ints(<<0, 0, 0>>), Ints(<<1, 1, 1>>),
          OnePoint(<<Dec(114614, 6), Dec(555649, 6), Dec(852547, 6)>>), Dec(-386278, 5))

\* 6.7 Hartmann 4-D Function: raises before obj is defined
Hartmann4(dimensions) == Raised(NotReady, {"__doc__"})

\* 6.8 Hartmann 6-D Function
Hartmann6A ==
    << <<Whole(10), Whole(3), Whole(17), Dec(35, 1), Dec(17, 1), Whole(8)>>,
       <<Dec(5, 2), Whole(10), Whole(17), Dec(1, 1), Whole(8), Whole(14)>>,
       <<Whole(3), Dec(35, 1), Dec(17, 1), Whole(10), Whole(17), Whole(8)>>,
       <<Whole(17), Whole(8), Dec(5, 2), Whole(10), Dec(1, 1), Whole(14)>> >>

\* P = 10^(-4) * np.array(...): ^ is exclusive or and binds less tightly than *, so
\* each component is 10 ^ (-4 * entry)
Hartmann6P ==
    LET rows == << <<1312, 1696, 5569, 124, 8283, 5886>>,
                   <<2329, 4135, 8307, 3736, 1004, 9991>>,
                   <<2348, 1451, 3522, 2883, 3047, 6650>>,
                   <<4047, 8828, 8732, 5743, 1091, 381>> >>
    IN  [i \in 1..Len(rows) |->
            [j \in 1..Len(rows[i]) |-> Whole(Xor(10, (-4) * rows[i][j]))]]

Hartmann6Obj(dimensions, x) ==
    IF ~Has(x, 6) THEN IndexError
    ELSE LET alpha == <<Whole(1), Dec(12, 1), Whole(3), Dec(32, 1)>>
             A == Hartmann6A
             P == Hartmann6P
             Inner(ii) == SumOver([jj \in 1..6 |-> Mul(A[ii][jj], Sq(Sub(x[jj], P[ii][jj])))], 1, 6)
             outer == SumOver([ii \in 1..4 |-> Mul(alpha[ii], Exp(Neg(Inner(ii))))], 1, 4)
         IN  Value(Div(Neg(Add(Dec(258, 2), outer)), Dec(194, 2)))

Hartmann6(dimensions) ==
    Built("6.8 Hartmann 6-D Function", dimensions,
          Fill(6, Whole(0)), Fill(6, Whole(1)),
          OnePoint(<<Dec(20169, 5), Dec(150011, 6), Dec(476874, 6),
                     Dec(275332, 6), Dec(311652, 6), Dec(6573, 4)>>),
          Dec(-332237, 5))

\* 6.9 Perm Function d, beta
PermObj(dimensions, x) ==
    IF ~Has(x, dimensions) THEN IndexError
    ELSE LET b == Dec(5, 1)
             d == dimensions
             Inner(ii) == SumOver([jj \in 1..d |->
                              Mul(Add(Whole(jj ^ ii), b),
                                  Sub(Pow(Div(x[jj], Whole(jj)), ii), Whole(1)))], 1, d)
         IN  Value(SumOver([ii \in 1..d |-> Sq(Inner(ii))], 1, d))

\* the branch of 6.9 with the sign of the lower bound lost
PermSameBounds(dimensions) ==
    Built("6.9 Perm Function d, β", dimensions,
          Fill(dimensions, Whole(dimensions)), Fill(dimensions, Whole(dimensions)),
          OnePoint(Ints(<<1, 2>>)), Whole(0))

Perm(dimensions) ==
    Built("6.9 Perm Function d, β", dimensions,
          Fill(dimensions, Whole(-dimensions)), Fill(dimensions, Whole(dimensions)),
          OnePoint(Ints(<<1, 2>>)), Whole(0))

\* 6.11 Shekel Function
ShekelB == [i \in 1..10 |-> Mul(Dec(1, 1), Whole(<<1, 2, 2, 4, 4, 6, 3, 7, 5, 5>>[i]))]

ShekelC ==
    << <<Whole(4), Whole(1), Whole(8), Whole(6), Whole(3), Whole(2), Whole(5), Whole(8), Whole(6), Whole(7)>>,
       <<Whole(4), Whole(1), Whole(8), Whole(6), Whole(7), Whole(9), Whole(3), Whole(1), Whole(2), Dec(36, 1)>>,
       <<Whole(4), Whole(1), Whole(8), Whole(6), Whole(3), Whole(2), Whole(5), Whole(8), Whole(6), Whole(7)>>,
       <<Whole(4), Whole(1), Whole(8), Whole(6), Whole(7), Whole(9), Whole(3), Whole(1), Whole(2), Dec(36, 1)>> >>

ShekelObj(dimensions, x) ==
    IF ~Has(x, 4) THEN IndexError
    ELSE LET b == ShekelB
             C == ShekelC
             Inner(ii) == SumOver([jj \in 1..4 |-> Sq(Sub(x[jj], C[jj][ii]))], 1, 4)
             outer == SumOver([ii \in 1..10 |-> Div(Whole(1), Add(Inner(ii), b[ii]))], 1, 10)
         IN  Value(Neg(outer))

Shekel(dimensions) ==
    Built("6.11 Shekel Function", dimensions,
          Ints(<<0, 0, 0, 0>>), Ints(<<10, 10, 10, 10>>),
          OnePoint(Ints(<<4, 4, 4, 4>>)), Dec(-105364, 4))

\* 6.12 Styblinski-Tang Function
StyblinskiTangObj(dimensions, x) ==
    IF ~Has(x, dimensions) THEN IndexError
    ELSE LET d == dimensions
             sum == SumOver([ii \in 1..d |->
                        Add(Sub(Pow(x[ii], 4), Mul(Whole(16), Sq(x[ii]))),
                            Mul(Whole(5), x[ii]))], 1, d)
         IN  Value(Div(sum, Whole(2)))

StyblinskiTang(dimensions) ==
    Built("6.12 Styblinski-Tang Function", dimensions,
          Fill(dimensions, Whole(-5)), Fill(dimensions, Whole(5)),
          OnePoint(Fill(dimensions, Dec(-2903534, 6))),
          Mul(Dec(-3916599, 5), Whole(dimensions)))

\* ------------------------------------------------------------ the catalog
\* the names the chain of comparisons of __init__ knows, in its order
Registered ==
    << "1.1 Ackley Function",
       "1.2 Bukin Function N. 6",
       "1.3 Cross-in-Tray Function",
       "1.4 Drop-Wave Function",
       "1.5 Eggholder Function",
       "1.6 Gramacy & Lee (2012) Function",
       "1.7 Griewank Function",
       "1.8 Holder Table Function",
       "1.9 Langermann Function",
       "1.10 Levy Function",
       "1.11 Levy Function N. 13",
       "1.12 Rastrigin Function",
       "1.13 Schaffer Function N. 2",
       "1.14 Schaffer Function N. 4",
       "1.15 Schwefel Function",
       "1.16 Shubert Function",
       "2.1 Bohachevsky Functions",
       "2.2 Perm Function 0, d, β",
       "2.3 Rotated Hyper-Ellipsoid Function",
       "2.4 Sphere Function Modified",
       "2.5 Sum of Different Powers Function",
       "2.6 Sum Squares Function",
       "2.7 Trid Function",
       "3.1 Booth Function",
       "3.2 Matyas Function",
       "3.3 McCormick Function",
       "3.4 Power Sum Function",
       "3.5 Zakharov Function",
       "4.1 Three-Hump Camel Function",
       "4.2 Six-Hump Camel Function",
       "4.3 Dixon-Price Function",
       "4.4 Rosenbrock Function",
       "5.2 Easom Function",
       "5.3 Michalewicz Function",
       "6.1 Beale Function",
       "6.2 Branin Function",
       "6.3 Colville Function",
       "6.4 Forrester et al. (2008) Function",
       "6.5 Goldstein-Price Function",
       "6.6 Hartmann 3-D Function",
       "6.7 Hartmann 4-D Function",
       "6.8 Hartmann 6-D Function",
       "6.9 Perm Function d, β",
       "6.11 Shekel Function",
       "6.12 Styblinski-Tang Function" >>

RegisteredNames == {Registered[i] : i \in 1..Len(Registered)}

\* NonCons.__init__(name, dimensions): the first branch whose name matches, else the raise
Construct(name, dimensions) ==
    CASE name = "1.1 Ackley Function" -> Ackley(dimensions)
      [] name = "1.2 Bukin Function N. 6" -> Bukin(dimensions)
      [] name = "1.3 Cross-in-Tray Function" -> CrossInTray(dimensions)
      [] name = "1.4 Drop-Wave Function" -> DropWave(dimensions)
      [] name = "1.5 Eggholder Function" -> Eggholder(dimensions)
      [] name = "1.6 Gramacy & Lee (2012) Function" -> GramacyLee(dimensions)
      [] name = "1.7 Griewank Function" -> Griewank(dimensions)
      [] name = "1.8 Holder Table Function" -> HolderTable(dimensions)
      [] name = "1.9 Langermann Function" -> Langermann(dimensions)
      [] name = "1.10 Levy Function" -> Levy(dimensions)
      [] name = "1.11 Levy Function N. 13" -> Levy13(dimensions)
      [] name = "1.12 Rastrigin Function" -> Rastrigin(dimensions)
      [] name = "1.13 Schaffer Function N. 2" -> Schaffer2(dimensions)
      [] name = "1.14 Schaffer Function N. 4" -> Schaffer4(dimensions)
      [] name = "1.15 Schwefel Function" -> Schwefel(dimensions)
      [] name = "1.16 Shubert Function" -> Shubert(dimensions)
      [] name = "2.1 Bohachevsky Functions" -> Bohachevsky(dimensions)
      [] name = "2.2 Perm Function 0, d, β" -> Perm0(dimensions)
      [] name = "2.3 Rotated Hyper-Ellipsoid Function" -> RotatedHyperEllipsoid(dimensions)
      [] name = "2.4 Sphere Function Modified" -> SphereModified(dimensions)
      [] name = "2.5 Sum of Different Powers Function" -> SumOfDifferentPowers(dimensions)
      [] name = "2.6 Sum Squares Function" -> SumSquares(dimensions)
      [] name = "2.7 Trid Function" -> Trid(dimensions)
      [] name = "3.1 Booth Function" -> Booth(dimensions)
      [] name = "3.2 Matyas Function" -> Matyas(dimensions)
      [] name = "3.3 McCormick Function" -> McCormick(dimensions)
      [] name = "3.4 Power Sum Function" -> PowerSum(dimensions)
      [] name = "3.5 Zakharov Function" -> Zakharov(dimensions)
      [] name = "4.1 Three-Hump Camel Function" -> ThreeHumpCamel(dimensions)
      [] name = "4.2 Six-Hump Camel Function" -> SixHumpCamel(dimensions)
      [] name = "4.3 Dixon-Price Function" -> DixonPrice(dimensions)
      [] name = "4.4 Rosenbrock Function" -> Rosenbrock(dimensions)
      [] name = "5.2 Easom Function" -> Easom(dimensions)
      [] name = "5.3 Michalewicz Function" -> Michalewicz(dimensions)
      [] name = "6.1 Beale Function" -> Beale(dimensions)
      [] name = "6.2 Branin Function" -> Branin(dimensions)
      [] name = "6.3 Colville Function" -> Colville(dimensions)
      [] name = "6.4 Forrester et al. (2008) Function" -> Forrester(dimensions)
      [] name = "6.5 Goldstein-Price Function" -> GoldsteinPrice(dimensions)
      [] name = "6.6 Hartmann 3-D Function" -> Hartmann3(dimensions)
      [] name = "6.7 Hartmann 4-D Function" -> Hartmann4(dimensions)
      [] name = "6.8 Hartmann 6-D Function" -> Hartmann6(dimensions)
      [] name = "6.9 Perm Function d, β" -> Perm(dimensions)
      [] name = "6.11 Shekel Function" -> Shekel(dimensions)
      [] name = "6.12 Styblinski-Tang Function" -> StyblinskiTang(dimensions)
      [] OTHER -> Raised(RaiseStr, {})

\* a call of the closure obj built by the branch of fn with `dimensions` captured
CallObj(fn, dimensions, x) ==
    CASE fn = "1.1 Ackley Function" -> AckleyObj(dimensions, x)
      [] fn = "1.2 Bukin Function N. 6" -> BukinObj(dimensions, x)
      [] fn = "1.3 Cross-in-Tray Function" -> CrossInTrayObj(dimensions, x)
      [] fn = "1.4 Drop-Wave Function" -> DropWaveObj(dimensions, x)
      [] fn = "1.5 Eggholder Function" -> EggholderObj(dimensions, x)
      [] fn = "1.7 Griewank Function" -> GriewankObj(dimensions, x)
      [] fn = "1.8 Holder Table Function" -> HolderTableObj(dimensions, x)
      [] fn = "1.10 Levy Function" -> LevyObj(dimensions, x)
      [] fn = "1.11 Levy Function N. 13" -> Levy13Obj(dimensions, x)
      [] fn = "1.12 Rastrigin Function" -> RastriginObj(dimensions, x)
      [] fn = "1.13 Schaffer Function N. 2" -> Schaffer2Obj(dimensions, x)
      [] fn = "1.14 Schaffer Function N. 4" -> Schaffer4Obj(dimensions, x)
      [] fn = "1.15 Schwefel Function" -> SchwefelObj(dimensions, x)
      [] fn = "1.16 Shubert Function" -> ShubertObj(dimensions, x)
      [] fn = "2.1 Bohachevsky Functions" -> BohachevskyObj(dimensions, x)
      [] fn = "2.2 Perm Function 0, d, β" -> Perm0Obj(dimensions, x)
      [] fn = "2.3 Rotated Hyper-Ellipsoid Function" -> RotatedHyperEllipsoidObj(dimensions, x)
      [] fn = "2.4 Sphere Function Modified" -> SphereModifiedObj(dimensions, x)
      [] fn = "2.5 Sum of Different Powers Function" -> SumOfDifferentPowersObj(dimensions, x)
      [] fn = "2.6 Sum Squares Function" -> SumSquaresObj(dimensions, x)
      [] fn = "2.7 Trid Function" -> TridObj(dimensions, x)
      [] fn = "3.1 Booth Function" -> BoothObj(dimensions, x)
      [] fn = "3.2 Matyas Function" -> MatyasObj(dimensions, x)
      [] fn = "3.3 McCormick Function" -> McCormickObj(dimensions, x)
      [] fn = "3.5 Zakharov Function" -> ZakharovObj(dimensions, x)
      [] fn = "4.1 Three-Hump Camel Function" -> ThreeHumpCamelObj(dimensions, x)
      [] fn = "4.2 Six-Hump Camel Function" -> SixHumpCamelObj(dimensions, x)
      [] fn = "4.3 Dixon-Price Function" -> DixonPriceObj(dimensions, x)
      [] fn = "4.4 Rosenbrock Function" -> RosenbrockObj(dimensions, x)
      [] fn = "5.2 Easom Function" -> EasomObj(dimensions, x)
      [] fn = "5.3 Michalewicz Function" -> MichalewiczObj(dimensions, x)
      [] fn = "6.1 Beale Function" -> BealeObj(dimensions, x)
      [] fn = "6.2 Branin Function" -> BraninObj(dimensions, x)
      [] fn = "6.3 Colville Function" -> ColvilleObj(dimensions, x)
      [] fn = "6.5 Goldstein-Price Function" -> GoldsteinPriceObj(dimensions, x)
      [] fn = "6.6 Hartmann 3-D Function" -> Hartmann3Obj(dimensions, x)
      [] fn = "6.8 Hartmann 6-D Function" -> Hartmann6Obj(dimensions, x)
      [] fn = "6.9 Perm Function d, β" -> PermObj(dimensions, x)
      [] fn = "6.11 Shekel Function" -> ShekelObj(dimensions, x)
      [] fn = "6.12 Styblinski-Tang Function" -> StyblinskiTangObj(dimensions, x)

\* the "Dimensions:" line of the branch's __doc__, for the entries that give a number
FixedDimensions ==
    [n \in {"1.2 Bukin Function N. 6", "1.3 Cross-in-Tray Function", "1.4 Drop-Wave Function",
            "1.5 Eggholder Function", "1.8 Holder Table Function", "1.11 Levy Function N. 13",
            "1.13 Schaffer Function N. 2", "1.14 Schaffer Function N. 4",
            "1.16 Shubert Function", "2.1 Bohachevsky Functions", "3.1 Booth Function",
            "3.2 Matyas Function", "3.3 McCormick Function", "4.1 Three-Hump Camel Function",
            "4.2 Six-Hump Camel Function", "5.2 Easom Function", "6.1 Beale Function",
            "6.2 Branin Function", "6.5 Goldstein-Price Function"} |-> 2]
    @@ [n \in {"1.6 Gramacy & Lee (2012) Function", "6.4 Forrester et al. (2008) Function"} |-> 1]
    @@ [n \in {"6.6 Hartmann 3-D Function"} |-> 3]
    @@ [n \in {"3.4 Power Sum Function", "6.3 Colville Function", "6.7 Hartmann 4-D Function",
               "6.11 Shekel Function"} |-> 4]
    @@ [n \in {"2.4 Sphere Function Modified", "6.8 Hartmann 6-D Function"} |-> 6]

\* the dimensionality of the entry: the documented number, or `dimensions` under "Dimensions: d"
Dimensionality(obj) ==
    IF obj.fn \in DOMAIN FixedDimensions THEN FixedDimensions[obj.fn] ELSE obj.dimensions

\* def __init__(self, name, dimensions=2)
DefaultDimensions == 2

\* what the caller holds after  problem = NonCons(name, dimensions)
NoProblem == [returned |-> FALSE, self |-> Blank({})]

Outcome(r) == IF r.raised = NoExc THEN [returned |-> TRUE, self |-> r.self] ELSE NoProblem

\* the points listed by xopt
Locations(xopt) == IF xopt.depth = 2 THEN {xopt.v[i] : i \in 1..Len(xopt.v)} ELSE {xopt.v}

\* ------------------------------------------------------------ inputs
\* identifiers that are not registered (the second is the one __main__ uses)
UnknownNames == {"not a real function", "GOLDPR"}
Names == RegisteredNames \cup UnknownNames

\* the values dimensions takes
Dims == 1..MaxDim

Coords == {Whole(-1), Whole(0), Whole(1)}

\* points of 1..MaxLen components: the constant points, and the points (0, ..., 0, 1)
Points ==
    {[i \in 1..n |-> c] : n \in 1..MaxLen, c \in Coords}
    \cup {[i \in 1..n |-> IF i = n THEN Whole(1) ELSE Whole(0)] : n \in 1..MaxLen}

\* ------------------------------------------------------------ state
VARIABLES
    name,        \* the identifier of the latest lookup
    dimensions,  \* its dimensions argument
    problem,     \* the object the lookup returned, or NoProblem
    exc,         \* the exception the lookup raised, or NoExc
    x,           \* the point of the latest call of problem.obj
    y,           \* what that call returned or raised
    callers,     \* per concurrent caller: its lookup in progress, the object it holds, its obj call
    heap,        \* the list objects the held descriptors refer to, by address
    alone        \* per caller: what its own calls give when no other caller runs

vars == <<name, dimensions, problem, exc, x, y, callers, heap, alone>>

\* the threads that call the module
Callers == {"a", "b"}

\* the attributes of a descriptor that hold a list object
ListAttrs == {"lb", "ub", "xopt"}

\* no list object is allocated
NoLists == [r \in {} |-> <<>>]

\* a caller that has made no call yet
NoCall ==
    [pc |-> "idle", name |-> "", dimensions |-> DefaultDimensions, exc |-> NoExc,
     problem |-> NoProblem, x |-> <<>>, y |-> NoResult]

Init ==
    /\ name = ""
    /\ dimensions = DefaultDimensions
    /\ problem = NoProblem
    /\ exc = NoExc
    /\ x = <<>>
    /\ y = NoResult
    /\ callers = [c \in Callers |-> NoCall]
    /\ heap = NoLists
    /\ alone = [c \in Callers |-> NoCall]

\* problem = NonCons(n, d)
Lookup(n, d) ==
    LET r == Construct(n, d)
    IN  /\ name' = n
        /\ dimensions' = d
        /\ exc' = r.raised
        /\ problem' = Outcome(r)
        /\ x' = <<>>
        /\ y' = NoResult
        /\ UNCHANGED <<callers, heap, alone>>

\* problem = NonCons(n)
LookupDefault(n) == Lookup(n, DefaultDimensions)

\* an obj that stores the value it computed in the descriptor
EvaluateStoring(pt) ==
    /\ problem.returned
    /\ x' = pt
    /\ y' = CallObj(problem.self.obj.fn, problem.self.obj.dimensions, pt)
    /\ problem' = [problem EXCEPT !.self.fopt = y'.val]
    /\ UNCHANGED <<name, dimensions, exc, callers, heap, alone>>

\* y = problem.obj(pt)
Evaluate(pt) ==
    /\ problem.returned
    /\ x' = pt
    /\ y' = CallObj(problem.self.obj.fn, problem.self.obj.dimensions, pt)
    /\ UNCHANGED <<name, dimensions, problem, exc, callers, heap, alone>>

\* y = problem.obj(p) for a point p listed by problem.xopt
EvaluateOptimum ==
    /\ problem.returned
    /\ \E p \in Locations(problem.self.xopt) : Evaluate(p)

Next ==
    \/ \E n \in Names, d \in Dims : Lookup(n, d)
    \/ \E n \in Names : LookupDefault(n)
    \/ \E pt \in Points : Evaluate(pt)
    \/ EvaluateOptimum

Spec == Init /\ [][Next]_vars

\* ------------------------------------------------------------ concurrent callers
\* the identifiers the concurrent callers look up, and the point they call obj with
CallerNames ==
    {"1.1 Ackley Function", "4.4 Rosenbrock Function",
     "1.6 Gramacy & Lee (2012) Function", "not a real function"}
\* Rosenbrock's obj returns 0.0, 1.0 and 102.0 at this point for dimensions 1, 2 and 3
CallerPoints == {Ints(<<0, 0, 1>>)}

\* every list display taken from the branch's first evaluation, by caller "a"
NewListCached(c, f) == <<"a", f>>

\* the address of the list a list display (or tolist()) creates for attribute f in the
\* __init__ call of caller c: a new object, apart from every list another caller holds
NewList(c, f) == <<c, f>>

\* the addresses a held object refers to
Refs(p) == IF p.returned THEN {p.self.lb, p.self.ub, p.self.xopt} ELSE {}

\* the list objects still referred to by some caller of cs
Live(cs, h) ==
    LET keep == UNION {Refs(cs[c].problem) : c \in Callers}
    IN  [r \in (DOMAIN h) \cap keep |-> h[r]]

\* the descriptor with its list attributes read through the heap
Deref(p, h) ==
    IF p.returned
    THEN [p EXCEPT !.self.lb = h[@], !.self.ub = h[@], !.self.xopt = h[@]]
    ELSE p

\* what caller c sees: its record with the lists of its descriptor read
View(c) == [callers[c] EXCEPT !.problem = Deref(@, heap)]

\* obj reading `dimensions` from the frame of an __init__ call that is in progress
CapturedShared(c) ==
    LET busy == {o \in Callers : callers[o].pc = "init"}
    IN  IF busy = {} THEN callers[c].problem.self.obj.dimensions
        ELSE callers[CHOOSE o \in busy : TRUE].dimensions

\* the value of `dimensions` that the closure obj of caller c's descriptor reads: the
\* local variable of the __init__ call that defined obj
Captured(c) == callers[c].problem.self.obj.dimensions

\* problem.lb[0] = 99 (likewise ub, xopt) on a list of at least one component
Scribble(f, v) ==
    IF f = "xopt" THEN [v EXCEPT !.v = [@ EXCEPT ![1] = Whole(99)]]
    ELSE [v EXCEPT ![1] = Whole(99)]

\* caller c calls NonCons(n, d): a frame with the arguments; c lets go of its old object
Enter(c, n, d) ==
    LET call == [NoCall EXCEPT !.pc = "init", !.name = n, !.dimensions = d]
        cs == [callers EXCEPT ![c] = call]
    IN  /\ callers[c].pc = "idle"
        /\ callers' = cs
        /\ heap' = Live(cs, heap)
        /\ alone' = [alone EXCEPT ![c] = call]
        /\ UNCHANGED <<name, dimensions, problem, exc, x, y>>

\* the object of caller c after its __init__ ran: the lists are stored at new addresses
Stored(c, r) ==
    IF r.raised = NoExc
    THEN [returned |-> TRUE,
          self |-> [r.self EXCEPT !.lb = NewList(c, "lb"), !.ub = NewList(c, "ub"),
                                  !.xopt = NewList(c, "xopt")]]
    ELSE NoProblem

\* the heap after the assignments of the branch
Allocated(c, r, h) ==
    IF r.raised = NoExc
    THEN [a \in (DOMAIN h) \cup {NewList(c, f) : f \in ListAttrs} |->
             IF a = NewList(c, "lb") THEN r.self.lb
             ELSE IF a = NewList(c, "ub") THEN r.self.ub
             ELSE IF a = NewList(c, "xopt") THEN r.self.xopt
             ELSE h[a]]
    ELSE h

\* a lookup that hands out the descriptor another caller holds for the same name
ReturnCached(c) ==
    LET hit == {o \in Callers \ {c} :
                   callers[o].problem.returned /\ callers[o].name = callers[c].name}
        r == IF hit = {} THEN Construct(callers[c].name, callers[c].dimensions)
             ELSE [raised |-> NoExc,
                   self |-> Deref(callers[CHOOSE o \in hit : TRUE].problem, heap).self]
    IN  /\ callers[c].pc = "init"
        /\ callers' = [callers EXCEPT ![c].pc = "idle", ![c].exc = r.raised,
                                      ![c].problem = Stored(c, r)]
        /\ heap' = Allocated(c, r, heap)
        /\ alone' = [alone EXCEPT ![c].pc = "idle", ![c].exc = r.raised,
                                  ![c].problem = Outcome(r)]
        /\ UNCHANGED <<name, dimensions, problem, exc, x, y>>

\* the __init__ call of caller c runs its branch and returns or raises
Return(c) ==
    LET r == Construct(callers[c].name, callers[c].dimensions)
    IN  /\ callers[c].pc = "init"
        /\ callers' = [callers EXCEPT ![c].pc = "idle", ![c].exc = r.raised,
                                      ![c].problem = Stored(c, r)]
        /\ heap' = Allocated(c, r, heap)
        /\ alone' = [alone EXCEPT ![c].pc = "idle", ![c].exc = r.raised,
                                  ![c].problem = Outcome(r)]
        /\ UNCHANGED <<name, dimensions, problem, exc, x, y>>

\* caller c calls problem.obj(pt)
CallerEvaluate(c, pt) ==
    /\ callers[c].pc = "idle"
    /\ callers[c].problem.returned
    /\ callers' = [callers EXCEPT ![c].x = pt,
                      ![c].y = CallObj(callers[c].problem.self.obj.fn, Captured(c), pt)]
    /\ alone' = [alone EXCEPT ![c].x = pt,
                    ![c].y = CallObj(alone[c].problem.self.obj.fn,
                                     alone[c].problem.self.obj.dimensions, pt)]
    /\ UNCHANGED <<name, dimensions, problem, exc, x, y, heap>>

\* caller c assigns to the first component of the list attribute f of its descriptor
Mutate(c, f) ==
    /\ callers[c].pc = "idle"
    /\ callers[c].problem.returned
    /\ heap' = [heap EXCEPT ![callers[c].problem.self[f]] = Scribble(f, @)]
    /\ alone' = [alone EXCEPT ![c].problem.self[f] = Scribble(f, @)]
    /\ UNCHANGED <<name, dimensions, problem, exc, x, y, callers>>

CallersNext ==
    \/ \E c \in Callers, n \in CallerNames, d \in Dims : Enter(c, n, d)
    \/ \E c \in Callers : Return(c)
    \/ \E c \in Callers, pt \in CallerPoints : CallerEvaluate(c, pt)
    \/ \E c \in Callers, f \in ListAttrs : Mutate(c, f)

CallersSpec == Init /\ [][CallersNext]_vars

\* ------------------------------------------------------------ comparisons
\* rational enclosures of a number: 3 < pi < 4 and 1 < 2.0**0.5 < 2
Lo(a) ==
    IF IsPi(a) THEN (IF a.n > 0 THEN Rat(3 * a.n, a.d) ELSE Rat(4 * a.n, a.d))
    ELSE IF a.k = "rt2" THEN (IF a.n > 0 THEN Rat(a.n, a.d) ELSE Rat(2 * a.n, a.d))
    ELSE a
Hi(a) ==
    IF IsPi(a) THEN (IF a.n > 0 THEN Rat(4 * a.n, a.d) ELSE Rat(3 * a.n, a.d))
    ELSE IF a.k = "rt2" THEN (IF a.n > 0 THEN Rat(2 * a.n, a.d) ELSE Rat(a.n, a.d))
    ELSE a

Known(a) == a.k # "flt"

\* a < b and a <= b, established by exact arithmetic
Below(a, b) == Known(a) /\ Known(b) /\ LET e == Sub(Lo(b), Hi(a)) IN Known(e) /\ e.n > 0
AtMost(a, b) == Known(a) /\ Known(b) /\ LET e == Sub(Lo(b), Hi(a)) IN Known(e) /\ e.n >= 0

\* the tolerance 1e-3 of the round-trip property
Tolerance == Dec(1, 3)

\* |a - b| exceeds the tolerance, absolutely and relative to b
Apart(a, b) ==
    /\ Below(Tolerance, FAbs(Sub(a, b)))
    /\ Below(Mul(Tolerance, FAbs(b)), FAbs(Sub(a, b)))

\* a lookup has been made / obj has been called since
LookedUp == name # ""
Evaluated == y.kind # "none"

NotReadyNames ==
    {"1.6 Gramacy & Lee (2012) Function", "1.9 Langermann Function", "3.4 Power Sum Function",
     "6.4 Forrester et al. (2008) Function", "6.7 Hartmann 4-D Function"}

\* ------------------------------------------------------------ claims
\* C1: looking up an identifier that matches no registered name fails with an error
\* that names the offending identifier, and returns no descriptor.
C1_UnknownNamesIdentifier ==
    (LookedUp /\ name \notin RegisteredNames) =>
        (exc # NoExc /\ exc.about = name /\ ~problem.returned)

\* C2: looking up any of the five names that are not ready fails with the
\* "not ready" error instead of returning a descriptor, for every dimensions.
C2_NotReadyFails ==
    (LookedUp /\ name \in NotReadyNames) =>
        (exc.type # "" /\ exc.msg = "Problem solution was not ready." /\ ~problem.returned)

C2_Witness ==
    /\ name = "1.6 Gramacy & Lee (2012) Function"
    /\ dimensions = 3
    /\ exc = NotReady
    /\ ~problem.returned

\* C3: the type of the failure of an unknown identifier differs from the type of
\* the failure of every entry that is not ready.
C3_FailureTypesDistinct ==
    (LookedUp /\ name \notin RegisteredNames /\ exc # NoExc) =>
        \A n \in NotReadyNames, d \in Dims : Construct(n, d).raised.type # exc.type

\* C4: there are 45 registered names; the lookup of a registered name fails exactly
\* when it is one of the five names that are not ready, and returns a descriptor otherwise.
C4_ExactlyFiveFail ==
    /\ Cardinality(RegisteredNames) = 45
    /\ NotReadyNames \subseteq RegisteredNames
    /\ (LookedUp /\ name \in RegisteredNames) =>
          /\ (exc # NoExc) = (name \in NotReadyNames)
          /\ problem.returned = (name \notin NotReadyNames)

C4_Witness ==
    /\ name = "3.1 Booth Function"
    /\ dimensions = 1
    /\ problem.returned
    /\ exc = NoExc

\* C5: the objective of Ackley built with dimensions 2, called with a point of 3
\* components, fails with DimensionMismatch and returns no number.
C5_AckleyMismatch ==
    (/\ problem.returned
     /\ problem.self.obj = [fn |-> "1.1 Ackley Function", dimensions |-> 2]
     /\ Evaluated /\ Len(x) = 3) =>
        y.kind = "DimensionMismatch"

\* C6: the objective of every implemented entry, called with a point whose length
\* differs from the entry's dimensionality, fails with DimensionMismatch.
C6_MismatchFails ==
    (problem.returned /\ Evaluated /\ Len(x) # Dimensionality(problem.self.obj)) =>
        y.kind = "DimensionMismatch"

\* C7: lb and ub of every returned descriptor have the length of the entry's dimensionality.
C7_BoundsHaveDimensionality ==
    problem.returned =>
        /\ Len(problem.self.lb) = Dimensionality(problem.self.obj)
        /\ Len(problem.self.ub) = Dimensionality(problem.self.obj)

\* C8: lb and ub of every returned descriptor have the same length, and
\* lb[i] < ub[i] for every component i.
C8_BoundsOrdered ==
    problem.returned =>
        /\ Len(problem.self.lb) = Len(problem.self.ub)
        /\ \A i \in 1..Len(problem.self.lb) : Below(problem.self.lb[i], problem.self.ub[i])

C8_Witness ==
    /\ name = "2.7 Trid Function"
    /\ dimensions = 3
    /\ problem.returned
    /\ problem.self.lb = <<Dec(-81, 1), Dec(-81, 1), Dec(-81, 1)>>
    /\ problem.self.ub = <<Whole(9), Whole(9), Whole(9)>>

\* C9: for an entry looked up with the default dimensions, the objective at every
\* point listed by xopt returns a number within 1e-3 of fopt.
C9_RoundTripOptimum ==
    (/\ problem.returned /\ dimensions = DefaultDimensions
     /\ Evaluated /\ x \in Locations(problem.self.xopt)) =>
        /\ y.kind = "value"
        /\ ~Apart(y.val, problem.self.fopt)

\* the point x lies in the box [lb, ub]
InBox(p, lb, ub) ==
    /\ Len(p) = Len(lb)
    /\ Len(p) = Len(ub)
    /\ \A i \in 1..Len(p) : AtMost(lb[i], p[i]) /\ AtMost(p[i], ub[i])

\* C10: no point of the box [lb, ub] has an objective value below fopt - 1e-3.
C10_GlobalMinimum ==
    (/\ problem.returned /\ Evaluated /\ y.kind = "value"
     /\ InBox(x, problem.self.lb, problem.self.ub)) =>
        ~Below(y.val, Sub(problem.self.fopt, Tolerance))

\* C11: the default lookup of 1.12 Rastrigin Function returns lb [-4, -4], ub [5, 5],
\* an xopt that is a list holding the one point [0, 0], and fopt 0.0.
C11_RastriginDescriptor ==
    (/\ LookedUp /\ name = "1.12 Rastrigin Function" /\ dimensions = DefaultDimensions) =>
        /\ problem.returned
        /\ problem.self.lb = Ints(<<-4, -4>>)
        /\ problem.self.ub = Ints(<<5, 5>>)
        /\ problem.self.xopt = ManyPoints(<<Ints(<<0, 0>>)>>)
        /\ problem.self.fopt = Whole(0)

\* C12: for the default lookup of 1.12 Rastrigin Function, obj([0, 0]) returns 0.0
\* and obj([1, 1]) returns 2.0.
C12_RastriginValues ==
    (/\ problem.returned /\ name = "1.12 Rastrigin Function"
     /\ dimensions = DefaultDimensions /\ Evaluated) =>
        /\ x = Ints(<<0, 0>>) => y = Value(Whole(0))
        /\ x = Ints(<<1, 1>>) => y = Value(Whole(2))

C12_Witness ==
    /\ problem.returned
    /\ problem.self.obj = [fn |-> "1.12 Rastrigin Function", dimensions |-> DefaultDimensions]
    /\ x = Ints(<<1, 1>>)
    /\ y = Value(Whole(2))

\* C13: the lookup of an entry whose documentation fixes its dimension, made with a
\* dimensions argument that differs from that dimension, fails and returns no descriptor.
C13_FixedDimensionChecked ==
    (/\ LookedUp /\ name \in DOMAIN FixedDimensions
     /\ dimensions # FixedDimensions[name]) =>
        (exc # NoExc /\ ~problem.returned)

\* C14: every point listed by xopt of a returned descriptor has as many components
\* as the entry's dimensionality, for every dimensions.
C14_OptimaHaveDimensionality ==
    problem.returned =>
        \A p \in Locations(problem.self.xopt) : Len(p) = Dimensionality(problem.self.obj)

\* C15: for a lookup with the default dimensions, every point listed by xopt lies in
\* the box: lb[i] <= p[i] <= ub[i] for every component i.
C15_OptimaInBox ==
    (problem.returned /\ dimensions = DefaultDimensions) =>
        \A p \in Locations(problem.self.xopt) : InBox(p, problem.self.lb, problem.self.ub)

C15_Witness ==
    /\ name = "6.2 Branin Function"
    /\ dimensions = DefaultDimensions
    /\ problem.returned
    /\ Cardinality(Locations(problem.self.xopt)) = 3
    /\ problem.self.lb = Ints(<<-5, 0>>)

\* the outcome of NonCons(n, d) when it is the first call of the program
First(n, d) == [exc |-> Construct(n, d).raised, problem |-> Outcome(Construct(n, d))]

\* the step in which the __init__ call of caller c ends
Returning(c) == callers[c].pc = "init" /\ callers'[c].pc = "idle"

\* the step in which caller c's call of obj ends
Evaluating(c) ==
    /\ callers[c].pc = "idle" /\ callers'[c].pc = "idle"
    /\ callers'[c].y # NoResult
    /\ <<callers'[c].x, callers'[c].y>> # <<callers[c].x, callers[c].y>>

\* C16: whatever lookups, evaluations and list assignments came before, a lookup with
\* arguments (n, d) ends with the outcome it has as the first call: the same exception,
\* or a descriptor with the same attributes; and obj of that descriptor returns what
\* obj of the first call's descriptor returns.
C16_OrderInsensitive ==
    [][\A c \in Callers :
          /\ Returning(c) =>
                /\ callers'[c].exc = First(callers[c].name, callers[c].dimensions).exc
                /\ Deref(callers'[c].problem, heap') =
                       First(callers[c].name, callers[c].dimensions).problem
          /\ Evaluating(c) =>
                callers'[c].y = CallObj(callers[c].name, callers[c].dimensions, callers'[c].x)
      ]_vars

\* both callers made the same lookup; "a" has assigned to its lb since, "b" has the
\* outcome of a first call and has called obj
C16_Witness ==
    /\ \A c \in Callers :
          /\ callers[c].pc = "idle"
          /\ callers[c].name = "4.4 Rosenbrock Function"
          /\ callers[c].dimensions = 3
          /\ callers[c].problem.returned
    /\ heap[callers["a"].problem.self.lb][1] = Whole(99)
    /\ Deref(callers["b"].problem, heap) = First("4.4 Rosenbrock Function", 3).problem
    /\ callers["b"].y = Value(Whole(102))

\* C17: under every interleaving of the calls of the callers, each caller sees what its
\* own calls give when it runs alone: the same exception, descriptor and obj results;
\* obj keeps the dimensions of its own lookup while another caller looks the name up
\* with other dimensions.
C17_CallersIndependent == \A c \in Callers : View(c) = alone[c]

C17_Witness ==
    /\ callers["a"].name = "4.4 Rosenbrock Function"
    /\ callers["a"].dimensions = 2
    /\ callers["a"].x = Ints(<<0, 0, 1>>)
    /\ callers["a"].y = Value(Whole(1))
    /\ callers["b"].name = "4.4 Rosenbrock Function"
    /\ callers["b"].dimensions = 3
    /\ callers["b"].x = Ints(<<0, 0, 1>>)
    /\ callers["b"].y = Value(Whole(102))

\* no list object is referred to by the descriptors of two callers
NoSharing(cs) ==
    \A c1, c2 \in Callers : c1 # c2 => Refs(cs[c1].problem) \cap Refs(cs[c2].problem) = {}

\* caller c makes no call in the step
Waiting(c) == callers'[c] = callers[c] /\ alone'[c] = alone[c]

\* C18: the descriptors held by different callers have no lb, ub or xopt list in common;
\* a step of one caller (an assignment to a component of its lb, ub or xopt included)
\* leaves the lists of the other callers' descriptors as they are; and a lookup made
\* afterwards gives lists with the contents the branch assigns.
C18_FreshLists ==
    [][/\ NoSharing(callers')
       /\ \A c \in Callers :
             /\ Waiting(c) => Deref(callers'[c].problem, heap') = Deref(callers[c].problem, heap)
             /\ Returning(c) =>
                   Deref(callers'[c].problem, heap') =
                       Outcome(Construct(callers[c].name, callers[c].dimensions))
      ]_vars

\* both callers made the same lookup; "a" assigned to lb, ub and xopt, the lists of "b"
\* are as the branch assigned them
C18_Witness ==
    /\ \A c \in Callers :
          /\ callers[c].pc = "idle"
          /\ callers[c].name = "1.1 Ackley Function"
          /\ callers[c].dimensions = DefaultDimensions
          /\ callers[c].problem.returned
    /\ \A f \in ListAttrs : heap[NewList("a", f)] # heap[NewList("b", f)]
    /\ Deref(callers["b"].problem, heap) = Outcome(Ackley(DefaultDimensions))

\* C19: a lookup that returns gives a descriptor with obj, cns, lb, ub, xopt and fopt
\* all assigned, xopt and fopt not None, and no exception; a lookup that raises
\* gives the caller no descriptor.
C19_NoPartialOutcome ==
    LookedUp =>
        /\ problem.returned =>
              /\ exc = NoExc
              /\ {"obj", "cns", "lb", "ub", "xopt", "fopt"} \subseteq problem.self.attrs
              /\ problem.self.xopt # NoneList
              /\ problem.self.fopt # NoneFloat
        /\ ~problem.returned => (exc # NoExc /\ problem = NoProblem)

C19_Witness ==
    /\ name = "1.6 Gramacy & Lee (2012) Function"
    /\ exc = NotReady
    /\ problem = NoProblem

\* C20: cns of every returned descriptor is None, for every entry and every dimensions.
C20_ConstraintsAbsent ==
    problem.returned => ("cns" \in problem.self.attrs /\ problem.self.cns = None)

C20_Witness ==
    /\ name = "6.12 Styblinski-Tang Function"
    /\ dimensions = 3
    /\ problem.returned
    /\ problem.self.cns = None

\* the entries whose documentation says "Dimensions: d"
Parametric == RegisteredNames \ DOMAIN FixedDimensions

\* the first n components of the point p
Prefix(p, n) == [i \in 1..n |-> p[i]]

\* C21: obj of an entry with "Dimensions: d", built with dimensions d, ranges over
\* exactly the first d components: called with a point of d components it returns a
\* number, and called with a longer point it returns what it returns for the first d
\* components.
C21_ExactlyDimensionsComponents ==
    (/\ problem.returned /\ name \in Parametric /\ Evaluated /\ Len(x) >= dimensions) =>
        /\ y.kind = "value"
        /\ y = CallObj(name, dimensions, Prefix(x, dimensions))

\* C22: what obj returns is determined by the identifier, the dimensions and the
\* point, whether the descriptor is the same or looked up again; a call of obj leaves
\* the descriptor as it is and the point is one that was supplied.
C22_EvaluationPure ==
    [][Evaluated' =>
          /\ y' = CallObj(name', dimensions', x')
          /\ x' \in Points \cup Locations(problem.self.xopt)
          /\ problem' = problem
          /\ <<name', dimensions', exc'>> = <<name, dimensions, exc>>
      ]_vars

C22_Witness ==
    /\ name = "6.3 Colville Function"
    /\ problem = Outcome(Colville(dimensions))
    /\ x = Ints(<<1, 1, 1, 1>>)
    /\ y = Value(Whole(0))

\* the entries whose obj is a polynomial and whose listed optimum is rational
Polynomials ==
    {"3.1 Booth Function", "3.2 Matyas Function", "4.1 Three-Hump Camel Function",
     "6.1 Beale Function", "6.3 Colville Function", "6.5 Goldstein-Price Function",
     "2.4 Sphere Function Modified"}

\* C23: for Booth, Matyas, Three-Hump Camel, Beale, Colville, Goldstein-Price and
\* Sphere Function Modified, obj at the listed optimum, in exact arithmetic, is fopt.
C23_PolynomialOptimumExact ==
    (/\ problem.returned /\ name \in Polynomials
     /\ Evaluated /\ x \in Locations(problem.self.xopt)) =>
        y = Value(problem.self.fopt)

\* C24: for 1.14 Schaffer Function N. 4, obj at the listed optimum [0, 0] is the
\* listed fopt 0.0.
C24_Schaffer4Optimum ==
    (/\ problem.returned /\ name = "1.14 Schaffer Function N. 4"
     /\ Evaluated /\ x = Ints(<<0, 0>>)) =>
        /\ problem.self.xopt = OnePoint(x)
        /\ problem.self.fopt = Whole(0)
        /\ y = Value(Whole(0))

\* C25: for 1.12 Rastrigin Function built with any dimensions, obj at the listed
\* optimum returns fopt, 0.0.
C25_RastriginOptimumAnyDimensions ==
    (/\ problem.returned /\ name = "1.12 Rastrigin Function"
     /\ Evaluated /\ x \in Locations(problem.self.xopt)) =>
        /\ problem.self.fopt = Whole(0)
        /\ y = Value(problem.self.fopt)

\* C26: for 2.7 Trid Function built with any dimensions d, obj at the listed optimum
\* returns a number, the listed fopt, which is -d(d+4)(d-1)/6.
C26_TridOptimumAnyDimensions ==
    (/\ problem.returned /\ name = "2.7 Trid Function"
     /\ Evaluated /\ x \in Locations(problem.self.xopt)) =>
        /\ problem.self.fopt = Rat(-(dimensions * (dimensions + 4) * (dimensions - 1)), 6)
        /\ y = Value(problem.self.fopt)

\* C27: for 4.4 Rosenbrock Function built with any dimensions d, lb, ub and the
\* listed optimum have d components, the optimum is the point of ones, fopt is 0 and
\* obj at the optimum returns exactly 0.
C27_RosenbrockAnyDimensions ==
    (problem.returned /\ name = "4.4 Rosenbrock Function") =>
        /\ Len(problem.self.lb) = dimensions
        /\ Len(problem.self.ub) = dimensions
        /\ problem.self.xopt = OnePoint(Fill(dimensions, Whole(1)))
        /\ problem.self.fopt = Whole(0)
        /\ (Evaluated /\ x = Fill(dimensions, Whole(1))) => y = Value(Whole(0))

C27_Witness ==
    /\ name = "4.4 Rosenbrock Function"
    /\ dimensions = 3
    /\ problem.returned
    /\ x = Ints(<<1, 1, 1>>)
    /\ y = Value(Whole(0))

\* the matrix of 6.8 scaled as the matrix of 6.6 is: 10.0**(-4.0) * np.array(...)
Hartmann6PScaled ==
    Scale(Dec(1, 4), << <<1312, 1696, 5569, 124, 8283, 5886>>,
                        <<2329, 4135, 8307, 3736, 1004, 9991>>,
                        <<2348, 1451, 3522, 2883, 3047, 6650>>,
                        <<4047, 8828, 8732, 5743, 1091, 381>> >>)

\* C28: the matrix P that obj of 6.8 Hartmann 6-D Function uses is the listed integer
\* matrix times 10**-4, so each of its components lies strictly between 0 and 1.
C28_Hartmann6PScaled ==
    (/\ problem.returned /\ name = "6.8 Hartmann 6-D Function" /\ Evaluated) =>
        /\ Hartmann6P = Hartmann6PScaled
        /\ \A i \in 1..4, j \in 1..6 :
              Below(Whole(0), Hartmann6P[i][j]) /\ Below(Hartmann6P[i][j], Whole(1))

====
